---- MODULE Spec2Model ----
(***************************************************************************)
(* The screen-marker calibration choreography of                          *)
(* calibration_choreography/screen_marker_plugin.py                        *)
(* (ScreenMarkerChoreographyPlugin): start(), the per-tick handler         *)
(* recent_events(), stop(), and the window callbacks that count down       *)
(* clicks_to_close.                                                        *)
(*                                                                         *)
(* Every handler is a function from the plugin's state (a record with one  *)
(* field per attribute) and its inputs to the state it leaves behind, so   *)
(* that a handler calling another (recent_events -> stop,                  *)
(* recent_events -> gl_display_in_window -> stop) is a function            *)
(* application, as in the code.  The actions apply a handler to the        *)
(* current state and to inputs the host may supply.                        *)
(*                                                                         *)
(* Screen coordinates are kept in quarters of the screen: the code's       *)
(* 0.0, 0.25, 0.5, 0.75, 1.0 are 0, 1, 2, 3, 4.                            *)
(***************************************************************************)
EXTENDS Integers, Sequences, FiniteSets, TLC

VARIABLES
    is_active,               \* base class: the routine is running
    current_mode,            \* base class: ChoreographyMode of the run
    detection_mapping_mode,  \* g_pool.detection_mapping_mode, "3d" or "2d"
    screen_marker_state,     \* the dwell counter t
    sample_duration,         \* frames to sample per site (constructor argument)
    lead_in,                 \* frames of marker shown before sampling
    lead_out,                \* frames of marker shown after sampling
    active_site,             \* the current site
    sites,                   \* the site queue
    ref_list,                \* reference samples
    pupil_list,              \* gaze samples
    clicks_to_close,         \* the cancellation counter
    markers,                 \* Ref markers of the last frame
    pos,                     \* norm_pos of the first of them, or None
    window,                  \* self._window is open
    buffer,                  \* which buffer of the window is shown
    clock,                   \* timestamp of the last frame handled (host)
    logged,                  \* what the last operation logged
    finalized                \* the finish_* calls of the last operation

vars == <<is_active, current_mode, detection_mapping_mode, screen_marker_state,
          sample_duration, lead_in, lead_out, active_site, sites, ref_list, pupil_list,
          clicks_to_close, markers, pos, window, buffer, clock, logged,
          finalized>>

(***************************************************************************)
(* Program constants: the durations __init__ sets, and the clicks that     *)
(* cancel a run.                                                           *)
(***************************************************************************)
DefaultLeadIn == 25
DefaultSampleDuration == 40
DefaultLeadOut == 5
InitialClicksToClose == 5

(***************************************************************************)
(* Bounds of the analysis.  Spec explores a plugin whose three durations   *)
(* are the short ones below, under every input; SpecDefault runs the       *)
(* durations of __init__.                                                  *)
(***************************************************************************)
SmallLeadIn == 1
SmallSampleDuration == 3
SmallLeadOut == 1
\* frame timestamps count up to MaxClock and stay there
MaxClock == 4
\* the gaze batches offered stop growing pupil_list beyond this length
MaxPupilLen == 2
\* clicks accepted after clicks_to_close has reached 0
MaxOverClicks == 0

None == <<>>

GAZE_3D == "3d"
GAZE_2D == "2d"
GazeDimensionality == {GAZE_3D, GAZE_2D}
CALIBRATION == "calibration"
ACCURACY_TEST == "accuracy_test"
ChoreographyMode == {CALIBRATION, ACCURACY_TEST}

Min(a, b) == IF a < b THEN a ELSE b

\* one statement after another: F applied to the value of x, x evaluated once
Then(x, F(_)) == CHOOSE n \in {F(v) : v \in {x}} : TRUE

\* site_locations, ignoring the pair: always the 3D calibration sites
site_locations_one_list(dim, mode) ==
    << <<2, 2>>, <<0, 4>>, <<4, 4>>, <<4, 0>>, <<0, 0>> >>

(***************************************************************************)
(* __site_locations: a fresh list on every call.                           *)
(***************************************************************************)
site_locations(dim, mode) ==
    IF dim = GAZE_3D /\ mode = CALIBRATION THEN
        << <<2, 2>>, <<0, 4>>, <<4, 4>>, <<4, 0>>, <<0, 0>> >>
    ELSE IF dim = GAZE_3D /\ mode = ACCURACY_TEST THEN
        << <<1, 2>>, <<2, 1>>, <<3, 2>>, <<2, 3>> >>
    ELSE IF dim = GAZE_2D /\ mode = CALIBRATION THEN
        << <<1, 2>>, <<0, 2>>, <<0, 4>>, <<2, 4>>, <<4, 4>>,
           <<4, 2>>, <<4, 0>>, <<2, 0>>, <<0, 0>>, <<3, 2>> >>
    ELSE IF dim = GAZE_2D /\ mode = ACCURACY_TEST THEN
        << <<2, 2>>, <<1, 1>>, <<1, 3>>, <<3, 3>>, <<3, 1>> >>
    ELSE None

\* start(): the dimensionality the mapping mode stands for
dim_of(mapping_mode) == IF mapping_mode = "3d" THEN GAZE_3D ELSE GAZE_2D

(***************************************************************************)
(* The plugin's state as one record.                                       *)
(***************************************************************************)
Self ==
    [is_active |-> is_active, current_mode |-> current_mode,
     detection_mapping_mode |-> detection_mapping_mode,
     screen_marker_state |-> screen_marker_state,
     sample_duration |-> sample_duration, lead_in |-> lead_in,
     lead_out |-> lead_out, active_site |-> active_site,
     sites |-> sites, ref_list |-> ref_list, pupil_list |-> pupil_list,
     clicks_to_close |-> clicks_to_close, markers |-> markers, pos |-> pos,
     window |-> window, buffer |-> buffer, clock |-> clock,
     logged |-> logged, finalized |-> finalized]

Assign(n) ==
    /\ is_active' = n.is_active
    /\ current_mode' = n.current_mode
    /\ detection_mapping_mode' = n.detection_mapping_mode
    /\ screen_marker_state' = n.screen_marker_state
    /\ sample_duration' = n.sample_duration
    /\ lead_in' = n.lead_in
    /\ lead_out' = n.lead_out
    /\ active_site' = n.active_site
    /\ sites' = n.sites
    /\ ref_list' = n.ref_list
    /\ pupil_list' = n.pupil_list
    /\ clicks_to_close' = n.clicks_to_close
    /\ markers' = n.markers
    /\ pos' = n.pos
    /\ window' = n.window
    /\ buffer' = n.buffer
    /\ clock' = n.clock
    /\ logged' = n.logged
    /\ finalized' = n.finalized

\* the plugin becomes x, x evaluated once
Becomes(x) == \E n \in {x} : Assign(n)

\* an operation starts with nothing logged and nothing handed over
Fresh(s) == [s EXCEPT !.logged = <<>>, !.finalized = <<>>]

(***************************************************************************)
(* The base class CalibrationChoreographyPlugin (base_plugin.py).          *)
(***************************************************************************)
super_start(s) == [s EXCEPT !.is_active = TRUE]
super_stop(s) == [s EXCEPT !.is_active = FALSE]
finish_calibration(s, pupil, ref) ==
    [s EXCEPT !.finalized =
        Append(@, [sink |-> CALIBRATION, pupil_list |-> pupil, ref_list |-> ref])]
finish_accuracy_test(s, pupil, ref) ==
    [s EXCEPT !.finalized =
        Append(@, [sink |-> ACCURACY_TEST, pupil_list |-> pupil, ref_list |-> ref])]

open_window(s) == [s EXCEPT !.window = TRUE]
close_window(s) == [s EXCEPT !.window = FALSE]

(***************************************************************************)
(* start().  It does not touch screen_marker_state, markers or pos.        *)
(***************************************************************************)
\* lines 306-308: self.sites is the catalog, its first site is popped
load_sites(s) ==
    LET all == site_locations(dim_of(s.detection_mapping_mode), s.current_mode)
    IN  [s EXCEPT !.sites = Tail(all), !.active_site = Head(all)]

\* reset_run, forgetting to clear ref_list
reset_run_keeps_refs(s) ==
    [s EXCEPT !.pupil_list = <<>>, !.clicks_to_close = InitialClicksToClose]

\* lines 310-312
reset_run(s) ==
    [s EXCEPT !.ref_list = <<>>, !.pupil_list = <<>>,
              !.clicks_to_close = InitialClicksToClose]

\* start, clearing the lists before it looks at the capture
start_resets_first(s, capture_online) ==
    IF ~capture_online THEN
        reset_run([s EXCEPT !.logged = Append(@, "error: requires world capture video input")])
    ELSE
        open_window(reset_run(load_sites(super_start(
            [s EXCEPT !.logged = Append(@, "Starting")]))))

\* lines 297-313
start(s, capture_online) ==
    IF ~capture_online THEN
        [s EXCEPT !.logged = Append(@, "error: requires world capture video input")]
    ELSE
        Then(super_start(s), LAMBDA s1 :
        Then([s1 EXCEPT !.logged = Append(@, "Starting")], LAMBDA s2 :
        Then(load_sites(s2), LAMBDA s3 :
        Then(reset_run(s3), LAMBDA s4 :
        open_window(s4)))))

\* stop(), handing every run to the calibration sink
stop_always_calibrates(s) ==
    Then([s EXCEPT !.logged = Append(@, "Stopping")], LAMBDA s1 :
    Then(close_window(s1), LAMBDA s2 :
    Then(finish_calibration(s2, s2.pupil_list, s2.ref_list), LAMBDA s3 :
    super_stop(s3))))

(***************************************************************************)
(* stop(): it zeroes self.counter and self.smooth_pos, attributes nothing  *)
(* else reads, and leaves screen_marker_state, sites and the lists alone.  *)
(***************************************************************************)
stop(s) ==
    Then([s EXCEPT !.logged = Append(@, "Stopping")], LAMBDA s1 :
    Then(close_window(s1), LAMBDA s2 :
    Then(IF s2.current_mode = CALIBRATION
         THEN finish_calibration(s2, s2.pupil_list, s2.ref_list) ELSE s2, LAMBDA s3 :
    Then(IF s3.current_mode = ACCURACY_TEST
         THEN finish_accuracy_test(s3, s3.pupil_list, s3.ref_list) ELSE s3, LAMBDA s4 :
    super_stop(s4)))))

(***************************************************************************)
(* gl_display_in_window(): stops the routine when the window is closing    *)
(* or has size (0, 0); otherwise draws and swaps the buffers.              *)
(***************************************************************************)
gl_display_in_window(s, window_ok) ==
    IF ~window_ok THEN stop(s)
    ELSE [s EXCEPT !.buffer = 1 - @]

(***************************************************************************)
(* recent_events(events).  An event e carries: frame (events.get("frame")  *)
(* is there), detected (what circle_tracker.update returns for the frame), *)
(* pupil (events["pupil"]), timestamp (frame.timestamp) and window_ok      *)
(* (the window is neither closing nor of size (0, 0)).                     *)
(***************************************************************************)
is_ref(marker) == marker.marker_type = "Ref"

\* lines 201-212: keep the Ref markers, pos is the first one's norm_pos
update_markers(s, e) ==
    LET found == SelectSeq(e.detected, is_ref)
    IN  [s EXCEPT !.markers = found,
                  !.pos = IF Len(found) > 0 THEN found[1].norm_pos ELSE None]

\* warn_more_than_one, warning about a single marker too
warn_any_marker(s) ==
    IF Len(s.markers) > 0
    THEN [s EXCEPT !.logged = Append(@, "warning: markers detected")]
    ELSE s

\* lines 215-221
warn_more_than_one(s) ==
    IF Len(s.markers) > 1
    THEN [s EXCEPT !.logged = Append(@, "warning: markers detected")]
    ELSE s

\* on_position_of, with the ends of the window included
on_position_inclusive(s) ==
    /\ s.lead_in <= s.screen_marker_state
    /\ s.screen_marker_state <= s.lead_in + s.sample_duration

\* lines 224-228
on_position_of(s) ==
    /\ s.lead_in < s.screen_marker_state
    /\ s.screen_marker_state < s.lead_in + s.sample_duration

\* save_ref, taking the last marker instead of the first
save_ref_of_last(s, e, on_position) ==
    IF on_position /\ Len(s.markers) > 0
    THEN [s EXCEPT !.ref_list =
            Append(@, [norm_pos |-> s.markers[Len(s.markers)].norm_pos,
                       screen_pos |-> s.markers[Len(s.markers)].img_pos,
                       timestamp |-> e.timestamp])]
    ELSE s

\* lines 230-235: marker_pos is the img_pos of the first marker
save_ref(s, e, on_position) ==
    IF on_position /\ Len(s.markers) > 0
    THEN [s EXCEPT !.ref_list =
            Append(@, [norm_pos |-> s.pos, screen_pos |-> s.markers[1].img_pos,
                       timestamp |-> e.timestamp])]
    ELSE s

\* save_pupil, only on frames that show a marker
save_pupil_if_marker(s, e) ==
    IF Len(s.markers) > 0 THEN [s EXCEPT !.pupil_list = @ \o e.pupil] ELSE s

\* line 238
save_pupil(s, e) == [s EXCEPT !.pupil_list = @ \o e.pupil]

\* clamp_state, clamping to the start of the sampling window
clamp_state_to_lead_in(s, on_position) ==
    IF on_position /\ Len(s.markers) > 0
    THEN [s EXCEPT !.screen_marker_state = Min(s.lead_in, @)]
    ELSE s

\* lines 240-243
clamp_state(s, on_position) ==
    IF on_position /\ Len(s.markers) > 0
    THEN [s EXCEPT !.screen_marker_state = Min(s.sample_duration + s.lead_in, @)]
    ELSE s

\* lines 267-268
display(s, e) == IF s.window THEN gl_display_in_window(s, e.window_ok) ELSE s

\* may_advance, holding the counter on every frame with no marker
may_advance_only_on_marker(s, on_position) == Len(s.markers) > 0

\* may_advance, never holding the counter
may_advance_always(s, on_position) == TRUE

\* line 250: the counter holds on a frame in the window with no marker
may_advance(s, on_position) == Len(s.markers) > 0 \/ ~on_position

\* pop_site, popping the end of the queue: self.sites.pop()
pop_site_from_end(s) ==
    [s EXCEPT !.active_site = s.sites[Len(s.sites)],
              !.sites = SubSeq(s.sites, 1, Len(s.sites) - 1),
              !.logged = Append(@, "Moving screen marker")]

\* lines 257-260: self.active_site = self.sites.pop(0)
pop_site(s) ==
    [s EXCEPT !.active_site = Head(s.sites), !.sites = Tail(s.sites),
              !.logged = Append(@, "Moving screen marker")]

\* animate, counting one past the end of the dwell cycle
animate_past_end(s, e, on_position) ==
    IF s.screen_marker_state <= s.sample_duration + s.lead_in + s.lead_out THEN
        IF may_advance(s, on_position)
        THEN display([s EXCEPT !.screen_marker_state = @ + 1], e)
        ELSE display(s, e)
    ELSE
        Then([s EXCEPT !.screen_marker_state = 0], LAMBDA s1 :
        IF s1.sites = <<>> THEN stop(s1)
        ELSE Then(pop_site(s1), LAMBDA s2 : display(s2, e)))

\* lines 246-260, and lines 262-268 that follow them unless stop() returned
animate(s, e, on_position) ==
    IF s.screen_marker_state < s.sample_duration + s.lead_in + s.lead_out THEN
        IF may_advance(s, on_position)
        THEN display([s EXCEPT !.screen_marker_state = @ + 1], e)
        ELSE display(s, e)
    ELSE
        Then([s EXCEPT !.screen_marker_state = 0], LAMBDA s1 :
        IF s1.sites = <<>> THEN stop(s1)
        ELSE Then(pop_site(s1), LAMBDA s2 : display(s2, e)))

\* cancelled, one click late
cancelled_below_zero(s) == s.clicks_to_close < 0

\* line 196
cancelled(s) == s.clicks_to_close <= 0

recent_events(s, e) ==
    IF s.is_active /\ e.frame THEN
        IF cancelled(s) THEN stop(s)
        ELSE
            Then(update_markers([s EXCEPT !.clock = e.timestamp], e), LAMBDA s1 :
            Then(warn_more_than_one(s1), LAMBDA s2 :
            Then(on_position_of(s2), LAMBDA on_position :
            Then(save_ref(s2, e, on_position), LAMBDA s3 :
            Then(save_pupil(s3, e), LAMBDA s4 :
            Then(clamp_state(s4, on_position), LAMBDA s5 :
            animate(s5, e, on_position)))))))
    ELSE display(s, e)

(***************************************************************************)
(* The window callbacks and deinit_ui.                                     *)
(***************************************************************************)
GLFW_PRESS == "press"
GLFW_RELEASE == "release"
GLFW_KEY_ESCAPE == "escape"

on_window_key(s, key, action) ==
    IF action = GLFW_PRESS /\ key = GLFW_KEY_ESCAPE
    THEN [s EXCEPT !.clicks_to_close = 0] ELSE s

\* on_window_mouse_button, stopping the routine with the last click
on_window_mouse_button_stops(s, action) ==
    IF action = GLFW_PRESS THEN
        Then([s EXCEPT !.clicks_to_close = @ - 1], LAMBDA s1 :
        IF s1.clicks_to_close <= 0 THEN stop(s1) ELSE s1)
    ELSE s

\* lines 490-492
on_window_mouse_button(s, action) ==
    IF action = GLFW_PRESS THEN [s EXCEPT !.clicks_to_close = @ - 1] ELSE s

deinit_ui(s) ==
    Then(IF s.is_active THEN stop(s) ELSE s, LAMBDA s1 :
    IF s1.window THEN close_window(s1) ELSE s1)

(***************************************************************************)
(* What the host supplies.                                                 *)
(***************************************************************************)
RefA == [marker_type |-> "Ref", img_pos |-> <<3, 1>>, norm_pos |-> <<2, 2>>]
RefB == [marker_type |-> "Ref", img_pos |-> <<5, 7>>, norm_pos |-> <<4, 0>>]
StopM == [marker_type |-> "Stop", img_pos |-> <<6, 6>>, norm_pos |-> <<1, 3>>]

Detections == {<<>>, <<RefA>>, <<RefA, RefB>>, <<StopM>>, <<StopM, RefA>>}
GazeBatches == {<<>>, <<1, 2>>}

\* a tick with a frame: the next timestamp, any detection and a gaze batch
\* that pupil_list has room for
FrameEvents ==
    [frame : {TRUE}, detected : Detections,
     pupil : {b \in GazeBatches : Len(pupil_list) + Len(b) <= MaxPupilLen},
     timestamp : {Min(clock + 1, MaxClock)}, window_ok : BOOLEAN]

\* a tick without a frame: nothing that recent_events reads but the window
IdleEvents ==
    [frame : {FALSE}, detected : {<<>>}, pupil : {<<>>},
     timestamp : {clock}, window_ok : BOOLEAN]

(***************************************************************************)
(* The plugin after __init__, and the operations on it.                    *)
(***************************************************************************)
InitPlugin ==
    /\ is_active = FALSE
    /\ current_mode \in ChoreographyMode
    /\ detection_mapping_mode \in {"3d", "2d"}
    /\ screen_marker_state = 0
    /\ active_site = None
    /\ sites = <<>>
    /\ ref_list = <<>>
    /\ pupil_list = <<>>
    /\ clicks_to_close = InitialClicksToClose
    /\ markers = <<>>
    /\ pos = None
    /\ window = FALSE
    /\ buffer = 0
    /\ clock = 0
    /\ logged = <<>>
    /\ finalized = <<>>

Init ==
    /\ InitPlugin
    /\ lead_in = SmallLeadIn
    /\ sample_duration = SmallSampleDuration
    /\ lead_out = SmallLeadOut

\* the host selects mode and mapping mode, and calls start() on an idle
\* plugin; while the capture is offline it retries with the selection it has
Start ==
    /\ ~is_active
    /\ \E mode \in ChoreographyMode, mapping \in {"3d", "2d"}, online \in BOOLEAN :
         /\ ~online => mode = current_mode /\ mapping = detection_mapping_mode
         /\ Becomes(start([Fresh(Self) EXCEPT !.current_mode = mode,
                                             !.detection_mapping_mode = mapping],
                         online))

\* a tick of the host; without a routine and a window the handler does nothing
Tick(events) ==
    /\ is_active \/ window
    /\ \E s \in {Fresh(Self)}, e \in events : Becomes(recent_events(s, e))

FrameTick == Tick(FrameEvents)
IdleTick == Tick(IdleEvents)

OnWindowMouseButton ==
    /\ window
    /\ clicks_to_close > -MaxOverClicks
    /\ \E action \in {GLFW_PRESS, GLFW_RELEASE} :
         Becomes(on_window_mouse_button(Fresh(Self), action))

OnWindowKey ==
    /\ window
    /\ \E key \in {GLFW_KEY_ESCAPE, "space"}, action \in {GLFW_PRESS, GLFW_RELEASE} :
         Becomes(on_window_key(Fresh(Self), key, action))

DeinitUi ==
    /\ is_active
    /\ Becomes(deinit_ui(Fresh(Self)))

Next == Start \/ FrameTick \/ IdleTick \/ OnWindowMouseButton \/ OnWindowKey \/ DeinitUi

Spec == Init /\ [][Next]_vars

(***************************************************************************)
(* SpecDefault: the plugin as __init__ leaves it (durations 25, 40, 5),    *)
(* one 2D calibration run, every tick a frame with exactly one Ref marker  *)
(* and one gaze datum, timestamps 1, 2, 3, ...                             *)
(***************************************************************************)
InitDefault ==
    /\ InitPlugin
    /\ lead_in = DefaultLeadIn
    /\ sample_duration = DefaultSampleDuration
    /\ lead_out = DefaultLeadOut

StartDefault ==
    /\ ~is_active
    /\ clock = 0
    /\ Becomes(start([Fresh(Self) EXCEPT !.current_mode = CALIBRATION,
                                        !.detection_mapping_mode = "2d"], TRUE))

FrameDefault ==
    /\ is_active
    /\ Becomes(recent_events(Fresh(Self),
                [frame |-> TRUE, detected |-> <<RefA>>, pupil |-> <<1>>,
                 timestamp |-> clock + 1, window_ok |-> TRUE]))

NextDefault == StartDefault \/ FrameDefault

SpecDefault == InitDefault /\ [][NextDefault]_vars

(***************************************************************************)
(* FairSpec: runs in 3D mapping mode whose frames keep arriving: while the *)
(* routine is active the host calls recent_events with a frame on every    *)
(* tick of the capture, so a frame tick that stays possible is taken.      *)
(* Gaze batches are empty, the detections arbitrary; clicks, the escape    *)
(* key, ticks without a frame and the loss of the window may come between. *)
(***************************************************************************)
FairStart ==
    /\ ~is_active
    /\ \E mode \in ChoreographyMode :
         Becomes(start([Fresh(Self) EXCEPT !.current_mode = mode,
                                          !.detection_mapping_mode = "3d"], TRUE))

FairFrameTick == Tick({e \in FrameEvents : e.pupil = <<>>})

FairNext ==
    FairStart \/ FairFrameTick \/ IdleTick \/ OnWindowMouseButton \/ OnWindowKey

FairSpec == Init /\ [][FairNext]_vars /\ WF_vars(FairFrameTick)

(***************************************************************************)
(* SpecDropout: runs whose dwell cycles start with the counter at 0 and    *)
(* run to completion: start() is called once, on the plugin as __init__    *)
(* leaves it, every tick is a frame with no marker, one Ref marker or a    *)
(* marker that is no Ref, in any pattern, nobody clicks and the window     *)
(* stays.                                                                  *)
(***************************************************************************)
DropoutStart ==
    /\ ~is_active
    /\ screen_marker_state = 0
    /\ clock = 0
    /\ \E mode \in ChoreographyMode, mapping \in {"3d", "2d"} :
         Becomes(start([Fresh(Self) EXCEPT !.current_mode = mode,
                                          !.detection_mapping_mode = mapping], TRUE))

DropoutFrame ==
    Tick({e \in FrameEvents :
            /\ Len(e.detected) <= 1
            /\ e.pupil = <<>>
            /\ e.window_ok})

NextDropout == DropoutStart \/ DropoutFrame

SpecDropout == Init /\ [][NextDropout]_vars

(***************************************************************************)
(* Vocabulary of the properties.                                           *)
(***************************************************************************)
\* the state a tick with events e leaves behind
After(e) == recent_events(Fresh(Self), e)
\* the detections of e that qualify (the Ref markers)
Qualifying(e) == SelectSeq(e.detected, is_ref)
\* the counter is strictly inside the sampling window
InSamplingWindow ==
    /\ lead_in < screen_marker_state
    /\ screen_marker_state < lead_in + sample_duration
TotalDwell == lead_in + sample_duration + lead_out
\* the catalog of the selected (dimensionality, mode) pair
Catalog == site_locations(dim_of(detection_mapping_mode), current_mode)
IsPrefix(a, b) == Len(a) <= Len(b) /\ SubSeq(b, 1, Len(a)) = a
\* the sample a frame with events e takes from detection m
SampleOf(m, e) ==
    [norm_pos |-> m.norm_pos, screen_pos |-> m.img_pos, timestamp |-> e.timestamp]
\* the routine has just been stopped and its lists handed over
HandedOver == ~is_active /\ finalized # <<>>

(***************************************************************************)
(* C1.  On every frame update of an Active run a reference sample is       *)
(* appended only if the counter at the start of the frame is strictly      *)
(* inside the sampling window; and when it is, and the frame has exactly   *)
(* one qualifying detection, exactly one sample is appended: that          *)
(* detection's normalized and image position with the frame's timestamp.   *)
(* (The frame update that observes the cancellation stops before the       *)
(* detector is run: it has no detection.)                                  *)
(***************************************************************************)
C1_SampleGating ==
    is_active =>
        \A e \in FrameEvents :
            LET n == After(e)
                q == Qualifying(e)
            IN  /\ n.ref_list # ref_list => InSamplingWindow
                /\ IsPrefix(ref_list, n.ref_list)
                /\ (clicks_to_close > 0 /\ InSamplingWindow /\ Len(q) = 1)
                     => n.ref_list = Append(ref_list, SampleOf(q[1], e))

\* a frame with one Ref marker has just been sampled
C1_Witness ==
    /\ is_active
    /\ Len(markers) = 1
    /\ ref_list # <<>>
    /\ ref_list[Len(ref_list)] =
         [norm_pos |-> markers[1].norm_pos, screen_pos |-> markers[1].img_pos,
          timestamp |-> clock]
    /\ screen_marker_state = lead_in + 2

C3_RefListLength ==
    HandedOver =>
        Len(finalized[1].ref_list) = Len(Catalog) * sample_duration

(***************************************************************************)
(* C4.  Once the cancellation counter has come down by five, a frame       *)
(* update stops the routine (the lists are handed over and the routine is  *)
(* inactive), for every counter value and every number of remaining sites, *)
(* and that update advances no site and collects no sample.                *)
(***************************************************************************)
C4_CancelStopsNextFrame ==
    (is_active /\ clicks_to_close <= InitialClicksToClose - 5) =>
        \A e \in FrameEvents :
            LET n == After(e)
            IN  /\ ~n.is_active
                /\ n.finalized = <<[sink |-> current_mode, pupil_list |-> pupil_list,
                                    ref_list |-> ref_list]>>
                /\ n.ref_list = ref_list
                /\ n.pupil_list = pupil_list
                /\ n.sites = sites
                /\ n.active_site = active_site
                /\ n.screen_marker_state = screen_marker_state
                /\ n.markers = markers

\* a run stopped with the counter at 0, in the sampling window, sites left
C4_Witness ==
    /\ HandedOver
    /\ clicks_to_close = 0
    /\ sites # <<>>
    /\ InSamplingWindow
    /\ logged = <<"Stopping">>

(***************************************************************************)
(* C5.  As claimed: whatever the detections, an Active run that keeps      *)
(* receiving frames eventually becomes Inactive.  Checked under FairSpec.  *)
(***************************************************************************)
C5_AlwaysCompletes == is_active ~> ~is_active

\* the counter is held: in the sampling window, the last frame without marker
HeldInWindow == is_active /\ InSamplingWindow /\ markers = <<>>

(***************************************************************************)
(* C5, amended.  An Active run that keeps receiving frames eventually      *)
(* becomes Inactive unless, from some frame on, the counter is inside the  *)
(* sampling window and every frame comes without a detection.              *)
(***************************************************************************)
C5_CompletesUnlessHeld == ([]<>~HeldInWindow) => (is_active ~> ~is_active)

\* the counter has been held after a first sample of the site
C5_Witness ==
    /\ HeldInWindow
    /\ ref_list # <<>>
    /\ ref_list[Len(ref_list)].timestamp < clock
    /\ screen_marker_state = lead_in + 2

(***************************************************************************)
(* C6.  As claimed: without a cancellation a run is stopped within         *)
(* (leadIn + sampleDuration + leadOut) * siteCount frame updates of its    *)
(* start; with one detection on every frame a site takes 70 frames and the *)
(* run ends on frame 70 * siteCount.  Checked under SpecDefault, where     *)
(* clock counts the frame updates of the run.                              *)
(***************************************************************************)
C6_FrameBound == HandedOver => clock <= TotalDwell * Len(Catalog)

(***************************************************************************)
(* C7.  As claimed: right after every successful start() the dwell counter *)
(* is 0.                                                                   *)
(***************************************************************************)
C7_StartResetsCounter ==
    [][(~is_active /\ is_active') => screen_marker_state' = 0]_vars

(***************************************************************************)
(* C8.  Right after every successful start() the current site is the first *)
(* site of the catalog of the selected pair, the queue holds the other     *)
(* sites in catalog order, both lists are empty and the cancellation       *)
(* counter is 5.                                                           *)
(***************************************************************************)
C8_StartReinitialises ==
    [][(~is_active /\ is_active') =>
          /\ Catalog' # <<>>
          /\ <<active_site'>> \o sites' = Catalog'
          /\ ref_list' = <<>>
          /\ pupil_list' = <<>>
          /\ clicks_to_close' = 5]_vars

\* a run started after one that was cancelled with samples taken and the
\* queue partly drained
C8_Witness ==
    /\ is_active
    /\ logged = <<"Starting">>
    /\ ref_list = <<>> /\ pupil_list = <<>>
    /\ clicks_to_close = 5
    /\ screen_marker_state = lead_in + 2
    /\ Len(markers) = 1
    /\ Len(sites) = Len(Catalog) - 1
    /\ clock > 0

(***************************************************************************)
(* C9.  Whenever a run leaves Active, by exhaustion of the queue, by       *)
(* cancellation or otherwise, exactly the finalize step of the run's mode  *)
(* is invoked, with the Gaze List and the Reference List of the run, and   *)
(* the controller is Inactive; nothing is handed over at any other time.   *)
(***************************************************************************)
C9_FinalizeOnLeave ==
    /\ [](finalized # <<>> => ~is_active)
    /\ [][(is_active /\ ~is_active') =>
            /\ current_mode' = current_mode
            /\ finalized' = <<[sink |-> current_mode, pupil_list |-> pupil_list',
                               ref_list |-> ref_list']>>
            /\ IsPrefix(ref_list, ref_list')
            /\ IsPrefix(pupil_list, pupil_list')]_vars
    /\ [][finalized' # <<>> => is_active]_vars

\* an accuracy test that ran to the end of its queue and handed over samples
C9_Witness ==
    /\ HandedOver
    /\ current_mode = ACCURACY_TEST
    /\ finalized[1].sink = ACCURACY_TEST
    /\ finalized[1].ref_list # <<>>
    /\ finalized[1].pupil_list # <<>>
    /\ sites = <<>>
    /\ screen_marker_state = 0
    /\ clicks_to_close > 0

(***************************************************************************)
(* C10.  During a run the current site followed by the queue is always a   *)
(* tail of the catalog, so the sites come in catalog order, each once; the *)
(* front of the queue is removed only by a frame update that starts with   *)
(* the counter at the end of the dwell cycle, and resets it; and a frame   *)
(* update of a run that is not cancelled stops the routine at the end of a *)
(* dwell cycle exactly when the queue is empty, the current site then      *)
(* being the last of the catalog.                                          *)
(***************************************************************************)
IsTail(a, b) == Len(a) <= Len(b) /\ SubSeq(b, Len(b) - Len(a) + 1, Len(b)) = a

C10_SitesInCatalogOrder ==
    /\ [](is_active => IsTail(<<active_site>> \o sites, Catalog))
    /\ [][(is_active /\ <<active_site', sites'>> # <<active_site, sites>>) =>
            /\ sites # <<>>
            /\ active_site' = Head(sites) /\ sites' = Tail(sites)
            /\ screen_marker_state = TotalDwell
            /\ screen_marker_state' = 0
            /\ clicks_to_close > 0]_vars
    /\ [](is_active /\ clicks_to_close > 0 =>
            \A e \in FrameEvents :
                LET n == After(e)
                IN  /\ (screen_marker_state = TotalDwell /\ sites = <<>>)
                         => (~n.is_active /\ active_site = Catalog[Len(Catalog)])
                    /\ (~n.is_active /\ e.window_ok)
                         => (screen_marker_state = TotalDwell /\ sites = <<>>))

\* the last site of a catalog is current, reached by popping the queue
C10_Witness ==
    /\ is_active
    /\ sites = <<>>
    /\ active_site = Catalog[Len(Catalog)]
    /\ logged = <<"Moving screen marker">>
    /\ screen_marker_state = 0

(***************************************************************************)
(* C11.  start() with the capture unavailable reports an error and changes *)
(* nothing else: the controller stays as it was (Inactive when it was      *)
(* Inactive), and the site queue, the current site, the dwell counter, the *)
(* Reference List, the Gaze List and the cancellation counter are those of *)
(* before, in every state the plugin can be in.                            *)
(***************************************************************************)
C11_OfflineStartChangesNothing ==
    LET n == start(Fresh(Self), FALSE)
    IN  /\ n.logged = <<"error: requires world capture video input">>
        /\ n.is_active = is_active
        /\ n.sites = sites
        /\ n.active_site = active_site
        /\ n.screen_marker_state = screen_marker_state
        /\ n.ref_list = ref_list
        /\ n.pupil_list = pupil_list
        /\ n.clicks_to_close = clicks_to_close
        /\ n = [Fresh(Self) EXCEPT !.logged = n.logged]

\* start() has just failed on a plugin that holds the remains of a run
C11_Witness ==
    /\ ~is_active
    /\ logged = <<"error: requires world capture video input">>
    /\ ref_list # <<>> /\ pupil_list # <<>>
    /\ sites # <<>>
    /\ screen_marker_state > 0
    /\ clicks_to_close < InitialClicksToClose

(***************************************************************************)
(* C12.  As claimed: on every frame update while the routine is Active all *)
(* items of the frame's gaze batch are appended to the Gaze List.          *)
(***************************************************************************)
C12_GazeOnEveryActiveFrame ==
    is_active =>
        \A e \in FrameEvents : After(e).pupil_list = pupil_list \o e.pupil

(***************************************************************************)
(* C12, amended.  On every frame update of an Active run whose             *)
(* cancellation counter is positive all items of the frame's gaze batch    *)
(* are appended to the Gaze List, in order, whatever the dwell phase and   *)
(* the number of detections, also when the update ends the run (the list   *)
(* handed over has them); the frame update that observes the cancellation  *)
(* (counter <= 0) stops the run and appends nothing of its batch.          *)
(***************************************************************************)
C12_GazeUnlessCancelled ==
    is_active =>
        \A e \in FrameEvents :
            LET n == After(e)
            IN  /\ clicks_to_close > 0 =>
                     /\ n.pupil_list = pupil_list \o e.pupil
                     /\ ~n.is_active => n.finalized[1].pupil_list = n.pupil_list
                /\ clicks_to_close <= 0 =>
                     /\ n.pupil_list = pupil_list
                     /\ n.finalized[1].pupil_list = pupil_list

\* a batch of two was appended in the lead-in on a frame without detection
C12_Witness ==
    /\ is_active
    /\ pupil_list = <<1, 2>>
    /\ markers = <<>>
    /\ ref_list = <<>>
    /\ screen_marker_state = 1
    /\ clock = 1

C14_DropoutStall ==
    (is_active /\ clicks_to_close > 0 /\ InSamplingWindow) =>
        \A e \in FrameEvents :
            LET n == After(e)
                q == Qualifying(e)
            IN  /\ Len(q) = 0 =>
                     /\ n.screen_marker_state = screen_marker_state
                     /\ n.ref_list = ref_list
                     /\ n.active_site = active_site /\ n.sites = sites
                     /\ n.is_active = e.window_ok
                /\ Len(q) > 0 => n.screen_marker_state = screen_marker_state + 1

\* the third frame of a run found no marker in the sampling window: the
\* counter is where the second frame left it, and nothing was sampled
C14_Witness ==
    /\ is_active
    /\ clicks_to_close > 0
    /\ clock = lead_in + 2
    /\ screen_marker_state = lead_in + 1
    /\ InSamplingWindow
    /\ markers = <<>>
    /\ ref_list = <<>>

(***************************************************************************)
(* C15.  On a frame update of an Active, uncancelled run with more than    *)
(* one (Ref) detection a warning is logged, once, and the counter advances *)
(* by exactly 1 whenever it is below lead_in + sample_duration + lead_out, *)
(* inside the sampling window too; no tick with at most one detection logs *)
(* a warning.                                                              *)
(***************************************************************************)
Warnings(log) == SelectSeq(log, LAMBDA m : m = "warning: markers detected")

C15_WarnAndAdvanceOnManyMarkers ==
    \A e \in FrameEvents \cup IdleEvents :
        LET n == After(e)
            q == Qualifying(e)
        IN  /\ (is_active /\ e.frame /\ clicks_to_close > 0 /\ Len(q) > 1) =>
                 /\ Len(Warnings(n.logged)) = 1
                 /\ screen_marker_state < TotalDwell
                      => n.screen_marker_state = screen_marker_state + 1
            /\ Len(q) <= 1 => Warnings(n.logged) = <<>>
            /\ ~(is_active /\ e.frame /\ clicks_to_close > 0) => Warnings(n.logged) = <<>>

\* a frame with two markers has moved the counter out of the sampling
\* window, with a warning
C15_Witness ==
    /\ is_active
    /\ Len(markers) = 2
    /\ logged = <<"warning: markers detected">>
    /\ screen_marker_state = lead_in + sample_duration
    /\ Len(ref_list) >= 2

(***************************************************************************)
(* The ways a frame update with events e, leaving n, treats the counter.   *)
(***************************************************************************)
SameSite(n) == n.active_site = active_site /\ n.sites = sites
\* the counter goes up by one, the site stays
Advances(n) == n.screen_marker_state = screen_marker_state + 1 /\ SameSite(n)
\* the counter is held by a frame without detection in the sampling window
Holds(n, e) ==
    /\ n.screen_marker_state = screen_marker_state
    /\ SameSite(n)
    /\ Qualifying(e) = <<>>
    /\ InSamplingWindow
\* the counter is reset with one site transition: the next site is popped,
\* or the routine stops because the queue is empty
Resets(n) ==
    /\ screen_marker_state # 0
    /\ n.screen_marker_state = 0
    /\ \/ /\ sites # <<>>
          /\ n.active_site = Head(sites) /\ n.sites = Tail(sites)
          /\ n.active_site # active_site
       \/ /\ sites = <<>>
          /\ ~n.is_active
          /\ SameSite(n)
\* the update observes the cancellation: it stops the run, the counter and
\* the site as they were
StopsCancelled(n) ==
    /\ clicks_to_close <= 0
    /\ ~n.is_active
    /\ n.screen_marker_state = screen_marker_state
    /\ SameSite(n)

(***************************************************************************)
(* C16.  As claimed: across every frame update of an Active run the        *)
(* counter goes up by exactly 1, or stays equal (only on a frame without   *)
(* detection inside the sampling window), or is reset to 0 together with   *)
(* exactly one site transition; the site changes in no other way.          *)
(***************************************************************************)
C16_ThreeWays ==
    is_active =>
        \A e \in FrameEvents :
            LET n == After(e)
            IN  Advances(n) \/ Holds(n, e) \/ Resets(n)

(***************************************************************************)
(* C16, amended.  Across every frame update of an Active run the counter   *)
(* goes up by exactly 1, or stays equal, or is reset to 0 together with    *)
(* exactly one site transition.  It stays equal only on a frame without    *)
(* detection inside the sampling window and on the update that observes    *)
(* the cancellation, which stops the run in any phase.  The site changes   *)
(* only with a reset, and an uncancelled update goes exactly one of the    *)
(* three ways.                                                             *)
(***************************************************************************)
C16_ThreeWaysOrCancelled ==
    is_active =>
        \A e \in FrameEvents :
            LET n == After(e)
            IN  /\ Advances(n) \/ Holds(n, e) \/ Resets(n) \/ StopsCancelled(n)
                /\ clicks_to_close > 0 => Advances(n) \/ Holds(n, e) \/ Resets(n)
                /\ clicks_to_close <= 0 => StopsCancelled(n)
                /\ ~SameSite(n) => Resets(n)

\* the second site has become current after a first site sampled in full:
\* the counter is back at 0
C16_Witness ==
    /\ is_active
    /\ logged = <<"Moving screen marker">>
    /\ screen_marker_state = 0
    /\ Len(sites) = Len(Catalog) - 2
    /\ Len(ref_list) = sample_duration - 1
    /\ clicks_to_close > 0

(***************************************************************************)
(* C17.  With lead_in = 25, sample_duration = 40 and lead_out = 5 the      *)
(* on-position predicate is false for every counter value in 0..25, true   *)
(* for every value in 26..64 and false for every value in 65..70; a frame  *)
(* update that starts with the counter at 70 completes the site (the next  *)
(* site is popped, or the routine stops on an empty queue) and leaves the  *)
(* counter at 0, and no frame update that starts below 70 completes the    *)
(* site.  Checked under SpecDefault, for every detection result.           *)
(***************************************************************************)
C17_DwellGateDefault ==
    (lead_in = 25 /\ sample_duration = 40 /\ lead_out = 5) =>
        /\ \A t \in 0..70 :
             on_position_of([Self EXCEPT !.screen_marker_state = t]) = (t \in 26..64)
        /\ screen_marker_state \in 0..70
        /\ is_active =>
             \A d \in Detections :
                LET e == [frame |-> TRUE, detected |-> d, pupil |-> <<>>,
                          timestamp |-> clock + 1, window_ok |-> TRUE]
                    n == After(e)
                IN  /\ screen_marker_state = 70 =>
                         /\ n.screen_marker_state = 0
                         /\ IF sites = <<>> THEN ~n.is_active
                            ELSE /\ n.is_active
                                 /\ n.active_site = Head(sites)
                                 /\ n.sites = Tail(sites)
                    /\ screen_marker_state < 70 =>
                         /\ n.is_active
                         /\ SameSite(n)
                         /\ n.screen_marker_state \in
                              {screen_marker_state, screen_marker_state + 1}

\* the 71st frame update of the run has completed the first site
C17_Witness ==
    /\ is_active
    /\ lead_in = 25 /\ sample_duration = 40 /\ lead_out = 5
    /\ clock = 71
    /\ screen_marker_state = 0
    /\ logged = <<"Moving screen marker">>
    /\ Len(sites) = Len(Catalog) - 2
    /\ Len(ref_list) = 39

(***************************************************************************)
(* C18.  A cancel tick (a press of a mouse button in the window of the     *)
(* routine) takes exactly 1 off the cancellation counter and changes       *)
(* nothing else: the controller stays Active, and the counter of the       *)
(* dwell, the current site, the site queue and both lists are as before;   *)
(* the release of the button changes nothing.  No step that changes the    *)
(* cancellation counter leaves Active: a cancelled run is stopped by a     *)
(* later frame update.                                                     *)
(***************************************************************************)
C18_CancelTickOnlyDecrements ==
    /\ [](window =>
            LET n == on_window_mouse_button(Fresh(Self), GLFW_PRESS)
            IN  /\ is_active /\ n.is_active
                /\ n.clicks_to_close = clicks_to_close - 1
                /\ n.screen_marker_state = screen_marker_state
                /\ n.active_site = active_site /\ n.sites = sites
                /\ n.ref_list = ref_list /\ n.pupil_list = pupil_list
                /\ n.finalized = <<>>
                /\ n = [Fresh(Self) EXCEPT !.clicks_to_close = clicks_to_close - 1]
                /\ on_window_mouse_button(Fresh(Self), GLFW_RELEASE) = Fresh(Self))
    /\ [][(is_active /\ clicks_to_close' # clicks_to_close) => is_active']_vars

\* the fourth click on a run in its sampling window: the run is active,
\* with its samples
C18_Witness ==
    /\ is_active
    /\ window
    /\ clicks_to_close = InitialClicksToClose - 4
    /\ logged = <<>>
    /\ InSamplingWindow
    /\ ref_list # <<>>
    /\ pupil_list # <<>>
    /\ markers # <<>>

(***************************************************************************)
(* C19.  The number of reference samples a site contributes does not       *)
(* depend on dropouts.  In a run whose dwell cycles start with the counter *)
(* at 0 and whose frames carry no or one detection, in any pattern, every  *)
(* completed site has contributed the same number of samples (one for      *)
(* each counter value strictly inside the sampling window, the number a    *)
(* run with a detection on every frame gets), and the current site as many *)
(* as the counter has passed of these values.  Checked under SpecDropout.  *)
(***************************************************************************)
SamplesPerSite == sample_duration - 1
SitesDone == Len(Catalog) - Len(sites) - 1
SamplesOfCurrentSite ==
    IF screen_marker_state <= lead_in + 1 THEN 0
    ELSE Min(screen_marker_state - lead_in - 1, SamplesPerSite)

C19_SamplesIndependentOfDropouts ==
    /\ is_active =>
          Len(ref_list) = SitesDone * SamplesPerSite + SamplesOfCurrentSite
    /\ HandedOver =>
          /\ Len(finalized[1].ref_list) = Len(Catalog) * SamplesPerSite
          /\ sites = <<>>

\* the first site is complete with all its samples although its first
\* sample was delayed by a frame without detection
C19_Witness ==
    /\ is_active
    /\ logged = <<"Moving screen marker">>
    /\ screen_marker_state = 0
    /\ SitesDone = 1
    /\ Len(ref_list) = SamplesPerSite
    /\ ref_list[1].timestamp > lead_in + 2

(***************************************************************************)
(* C20.  Conditional liveness.  If frames keep arriving and, again and     *)
(* again, a frame carries at least one (Ref) detection, every Active run   *)
(* eventually becomes Inactive, no cancellation needed; and a run that     *)
(* stays Active for ever is, from some frame on, held inside the sampling  *)
(* window by frames without detection.  Checked under FairSpec.            *)
(***************************************************************************)
DetectionSeen == markers # <<>>

C20_CompletesIfDetectionsRecur ==
    /\ ([]<>DetectionSeen) => (is_active ~> ~is_active)
    /\ (<>[]is_active) => <>[]HeldInWindow

\* a run has ended with its queue, on a frame with a detection, and nobody
\* has clicked
C20_Witness ==
    /\ HandedOver
    /\ sites = <<>>
    /\ screen_marker_state = 0
    /\ clicks_to_close = InitialClicksToClose
    /\ DetectionSeen
    /\ Len(finalized[1].ref_list) >= Len(Catalog)

(***************************************************************************)
(* C21.  With the durations fixed, in every state the plugin reaches by    *)
(* any sequence of start, frame update, tick without frame, click, escape  *)
(* key and stop, across cancelled and restarted runs too, the dwell        *)
(* counter is at least 0 and at most lead_in + sample_duration + lead_out, *)
(* and no frame update takes it out of that range.                         *)
(***************************************************************************)
C21_CounterInRange ==
    /\ screen_marker_state \in 0..TotalDwell
    /\ \A e \in FrameEvents \cup IdleEvents :
         After(e).screen_marker_state \in 0..TotalDwell
    /\ lead_in = SmallLeadIn /\ sample_duration = SmallSampleDuration
    /\ lead_out = SmallLeadOut

\* a run has been started on a plugin whose last run was stopped with the
\* counter at the end of the dwell cycle: the counter is still there
C21_Witness ==
    /\ is_active
    /\ logged = <<"Starting">>
    /\ screen_marker_state = TotalDwell
    /\ clock > 0
    /\ ref_list = <<>>
    /\ Len(sites) = Len(Catalog) - 1

====
